---- MODULE Spec2Model ----
(***************************************************************************)
(* luci: the docstring engine of src/docstrings.py driven by the main loop *)
(* of src/luci.py.  A source file is a text (a sequence of lines); it is   *)
(* parsed into a tree of class/function scopes and statements, traversed   *)
(* depth first by DocstringUpdater (visit_* on the way down, leave_* on    *)
(* the way up, as libcst's CSTTransformer does), and printed back.         *)
(***************************************************************************)
EXTENDS Integers, Sequences, FiniteSets, TLC

(***************************************************************************)
(* Bounds of the model.                                                    *)
(***************************************************************************)
\* scopes + statements + header comments of one generated source file
MaxSize == 3
\* deepest nesting of scopes in a generated source file
MaxNest == 3
\* largest value of --depth
MaxDepth == 2
\* most function paths decorating a filename (file.py:a:b)
MaxPaths == 1
\* times the main loop is given the same filename
MaxFiles == 2
\* options.attempts is at most
MaxAttempts == 3
\* width of one indentation step of the generated source files
IndentUnit == 4

(***************************************************************************)
(* Values.                                                                 *)
(***************************************************************************)
None == [none |-> TRUE]
Some(v) == [none |-> FALSE, v |-> v]

ScopeKinds == {"class", "function"}

\* TrailingWhitespace after the colon of a def/class line: the spaces before
\* the comment and the comment
NoComment == [ws |-> 0, comment |-> ""]
Comment == [ws |-> 2, comment |-> "# c"]

\* fmt = -1: a statement as written in the source; fmt >= 0: a docstring
\* produced by format_docstring with that many columns of leading whitespace
Stmt(k, text) == [k |-> k, text |-> text, fmt |-> -1]
Docstring == Stmt("doc", "old")
SecondString == Stmt("doc", "second")
Concatenated == Stmt("cat", "old")
Other == Stmt("other", "return")
Pass == Stmt("other", "pass")

Scope(k, name, hdr, body) == [k |-> k, name |-> name, hdr |-> hdr, body |-> body]

IsScope(s) == s.k \in ScopeKinds

(***************************************************************************)
(* Module.code and cst.parse_module: text is a sequence of lines           *)
(***************************************************************************)
Line(ind, s) ==
    [ind |-> ind, k |-> s.k,
     text |-> IF IsScope(s) THEN s.name ELSE s.text,
     hdr |-> IF IsScope(s) THEN s.hdr ELSE NoComment,
     fmt |-> IF IsScope(s) THEN -1 ELSE s.fmt]

RECURSIVE CodeOf(_, _, _)
\* the lines of the statements body[i..] at indentation level ind
CodeOf(body, i, ind) ==
    IF i > Len(body) THEN <<>>
    ELSE LET s == body[i]
             own == IF IsScope(s)
                    THEN <<Line(ind, s)>> \o
                         (IF s.body = <<>> THEN <<Line(ind + 1, Pass)>>
                          ELSE CodeOf(s.body, 1, ind + 1))
                    ELSE <<Line(ind, s)>>
         IN own \o CodeOf(body, i + 1, ind)

Code(body) == CodeOf(body, 1, 0)

\* number of lines after the first that are indented deeper than ind
BlockLen(lines, ind) ==
    CHOOSE n \in 0..(Len(lines) - 1) :
        /\ \A j \in 2..(n + 1) : lines[j].ind > ind
        /\ (n + 1 = Len(lines) \/ lines[n + 2].ind <= ind)

RECURSIVE ParseLines(_)
ParseLines(lines) ==
    IF lines = <<>> THEN <<>>
    ELSE LET l == lines[1]
             n == IF l.k \in ScopeKinds THEN BlockLen(lines, l.ind) ELSE 0
             s == IF l.k \in ScopeKinds
                  THEN Scope(l.k, l.text, l.hdr, ParseLines(SubSeq(lines, 2, n + 1)))
                  ELSE [k |-> l.k, text |-> l.text, fmt |-> l.fmt]
         IN <<s>> \o ParseLines(SubSeq(lines, n + 2, Len(lines)))

parse_module(source_code) == ParseLines(source_code)

(***************************************************************************)
(* The source files the model reads.                                       *)
(***************************************************************************)
ClassNames == {"Foo"}
FunctionNames == {"bar", "baz"}
Preludes == {<<>>, <<Docstring>>, <<Docstring, Other>>,
             <<Docstring, SecondString>>, <<Concatenated, Other>>}
Headers == {NoComment, Comment}

HdrSize(h) == IF h = NoComment THEN 0 ELSE 1

RECURSIVE Size(_, _)
Size(body, i) ==
    IF i > Len(body) THEN 0
    ELSE (IF IsScope(body[i])
          THEN 1 + HdrSize(body[i].hdr) + Size(body[i].body, 1)
          ELSE 1) + Size(body, i + 1)

RECURSIVE Forests(_, _)
\* the sequences of scopes of total size at most n nested at most d deep
Forests(n, d) ==
    IF n < 1 \/ d < 1 THEN {<<>>}
    ELSE {<<>>} \cup
         UNION { UNION { { <<Scope(k, name, NoComment, kids)>> \o rest :
                             rest \in Forests(n - 1 - Size(kids, 1), d) } :
                         kids \in Forests(n - 1, d - 1) } :
                 <<k, name>> \in ({"class"} \X ClassNames) }
         \cup
         UNION { UNION { UNION { { <<Scope("function", name, h, pre \o kids)>> \o rest :
                             rest \in Forests(n - 1 - HdrSize(h) - Len(pre) - Size(kids, 1), d) } :
                         kids \in Forests(n - 1 - HdrSize(h) - Len(pre), d - 1) } :
                     <<h, pre>> \in { hp \in Headers \X Preludes :
                                        1 + HdrSize(hp[1]) + Len(hp[2]) <= n } } :
                 name \in FunctionNames }

\* functions are named in order of appearance: the first function of a file
\* is bar (a file and its renaming are treated alike)
NamedInOrder(lines) ==
    \A i \in 1..Len(lines) :
        (lines[i].k = "function" /\ \A j \in 1..(i - 1) : lines[j].k # "function")
            => lines[i].text = "bar"

SourceFiles ==
    { c \in { Code(f) : f \in Forests(MaxSize, MaxNest) \ {<<>>} } : NamedInOrder(c) }

\* the function paths a filename can be decorated with
PathPool == {"bar.baz"}

\* class Foo of src/testing/example.py: __init__ and check with a docstring,
\* and __init__ of the nested class Bar without one
Example ==
    Code(<<Scope("class", "Foo", NoComment,
                 <<Scope("function", "__init__", NoComment, <<Docstring, Other>>),
                   Scope("function", "check", NoComment, <<Docstring, Other>>),
                   Scope("class", "Bar", NoComment,
                         <<Scope("function", "__init__", NoComment, <<Other>>)>>)>>)>>)

(***************************************************************************)
(* The oracle (src/queries.py) as the engine sees it.                      *)
(***************************************************************************)
\* queries.validate_docstring returns (True, response), (False, report) or
\* lets the TypeError of re.findall on the {'error': ...} dictionary that
\* OllamaService.query returns for a failed request escape
ValidateOutcomes ==
    { [raised |-> FALSE, ok |-> TRUE, text |-> "ANSWER: correct"],
      [raised |-> FALSE, ok |-> FALSE, text |-> "ANSWER: incorrect: missing parameter section"],
      [raised |-> TRUE, ok |-> FALSE, text |-> "TypeError"] }

RECURSIVE Repeat(_, _)
Repeat(s, n) == IF n = 0 THEN "" ELSE s \o Repeat(s, n - 1)

\* a text of two paragraphs with a blank line between them; the second is
\* longer than a line and holds a word longer than a line
Paragraphs ==
    "  Checks equality with 42.\n\n" \o Repeat("word ", 20) \o Repeat("x", 90) \o " end\n"

\* queries.generate_docstring returns a text, or None after options.attempts
\* unsuccessful attempts
GenerateOutcomes == { None, Some(Paragraphs) }

(***************************************************************************)
(* Strings.                                                                *)
(***************************************************************************)
StartsWith(s, p) == Len(s) >= Len(p) /\ SubSeq(s, 1, Len(p)) = p

EndsWith(s, p) == Len(s) >= Len(p) /\ SubSeq(s, Len(s) - Len(p) + 1, Len(s)) = p

Contains(s, p) == \E i \in 1..(Len(s) - Len(p) + 1) : SubSeq(s, i, i + Len(p) - 1) = p

Char(s, i) == SubSeq(s, i, i)

Whitespace == {" ", "\n"}

RECURSIVE lstrip(_)
lstrip(s) ==
    IF Len(s) > 0 /\ Char(s, 1) \in Whitespace THEN lstrip(SubSeq(s, 2, Len(s))) ELSE s

RECURSIVE rstrip(_)
rstrip(s) ==
    IF Len(s) > 0 /\ Char(s, Len(s)) \in Whitespace
    THEN rstrip(SubSeq(s, 1, Len(s) - 1)) ELSE s

\* str.strip()
strip(s) == rstrip(lstrip(s))

RECURSIVE split(_, _)
\* str.split(sep), sep a single character
split(s, sep) ==
    IF \E i \in 1..Len(s) : Char(s, i) = sep
    THEN LET i == CHOOSE i \in 1..Len(s) :
                    Char(s, i) = sep /\ \A j \in 1..(i - 1) : Char(s, j) # sep
         IN  <<SubSeq(s, 1, i - 1)>> \o split(SubSeq(s, i + 1, Len(s)), sep)
    ELSE <<s>>

RECURSIVE Join(_, _)
\* sep.join(names)
Join(names, sep) ==
    IF names = <<>> THEN ""
    ELSE IF Len(names) = 1 THEN names[1]
    ELSE names[1] \o sep \o Join(Tail(names), sep)

RECURSIVE Sum(_)
Sum(ws) == IF ws = <<>> THEN 0 ELSE ws[1] + Sum(Tail(ws))


Max(a, b) == IF a >= b THEN a ELSE b

Range(seq) == { seq[i] : i \in 1..Len(seq) }

(***************************************************************************)
(* DocstringUpdater (src/docstrings.py).                                   *)
(***************************************************************************)
RuleWidth == 70

\* the slice is taken whatever the number of parts
function_paths_always(parts) == Some(Tail(parts))

\* luci.main: parts = decorated_filename.split(':');
\* function_paths = None if len(parts) <= 1 else parts[1:]
function_paths(parts) == IF Len(parts) <= 1 THEN None ELSE Some(Tail(parts))

\* the leading whitespace add_leading_whitespace captures for a scope: the
\* whitespace at the start of the printed block, cut at its last newline.
\* The block prints as header, newline, indent, first statement, so this is
\* the indent, unless the header holds a comment, which ends the match
add_leading_whitespace(node) ==
    IF node.hdr.comment # "" THEN node.hdr.ws ELSE IndentUnit

\* ''.join(self.leading_whitespace), as a width
get_leading_whitespace(leading_whitespace) == Sum(leading_whitespace)

\* the name of the outermost scope alone
get_outermost_name(names) == names[1]

\* the simple name alone
get_simple_name(names) == names[Len(names)]

get_fully_qualified_function_name(names) == Join(names, ".")

\* FunctionDef.get_docstring(): the value of the string expression that is
\* the first statement of the body, a simple or a concatenated string
get_docstring(node) ==
    IF node.body # <<>> /\ node.body[1].k \in {"doc", "cat"}
    THEN Some(node.body[1].text)
    ELSE None

WrapWidth == 80

\* the indent is counted twice
total_width_twice(lws) == lws + lws + WrapWidth

\* total_width = len(leading_whitespace) + 80
total_width(lws) == lws + WrapWidth

RECURSIVE wrap_words(_, _, _)
\* textwrap's filling of lines of at most width characters with the words
\* of a paragraph (words separated by single spaces, no hyphens): a word
\* that does not fit starts a new line; a word longer than a line is broken
\* and its head fills the current line
wrap_words(words, cur_line, width) ==
    IF words = <<>> THEN (IF cur_line = "" THEN <<>> ELSE <<cur_line>>)
    ELSE LET word == words[1]
             cur_len == IF cur_line = "" THEN 0 ELSE Len(cur_line) + 1
         IN  IF cur_len + Len(word) <= width
             THEN wrap_words(Tail(words),
                             IF cur_line = "" THEN word ELSE cur_line \o " " \o word,
                             width)
             ELSE IF cur_len <= width /\ Len(word) > width
             THEN LET space_left == width - cur_len
                      head == SubSeq(word, 1, space_left)
                      rest == SubSeq(word, space_left + 1, Len(word))
                  IN  <<IF cur_line = "" THEN head ELSE cur_line \o " " \o head>>
                          \o wrap_words(<<rest>> \o Tail(words), "", width)
             ELSE <<cur_line>> \o wrap_words(words, "", width)

\* TextWrapper(width, initial_indent=indent, subsequent_indent=indent).wrap(line)
wrap(line, indent, width) ==
    LET lines == wrap_words(split(line, " "), "", width - indent)
    IN  [i \in 1..Len(lines) |-> Repeat(" ", indent) \o lines[i]]

RECURSIVE formatted_lines(_, _)
\* '\n'.join(wrapped_lines) for each line: no wrapped line gives an empty line
formatted_lines(lines, lws) ==
    IF lines = <<>> THEN <<>>
    ELSE LET wrapped_lines == wrap(lines[1], lws, total_width(lws))
         IN  (IF wrapped_lines = <<>> THEN <<"">> ELSE wrapped_lines)
                 \o formatted_lines(Tail(lines), lws)

\* the lines of the text format_docstring returns:
\* '"""\n' + '\n'.join(formatted_lines) + '\n' + leading_whitespace + '"""'
docstring_text(docstring, lws) ==
    <<"\"\"\"">> \o formatted_lines(split(strip(docstring), "\n"), lws)
        \o <<Repeat(" ", lws) \o "\"\"\"">>

\* the statement SimpleStatementLine([Expr(SimpleString(new_docstring))]):
\* the SimpleString whose value is docstring_text(text, fmt)
format_docstring(docstring, lws) == [k |-> "doc", text |-> docstring, fmt |-> lws]

\* body_statements[0] is a SimpleStatementLine whose first element is an
\* Expr whose value is a SimpleString
IsSimpleStringStatement(body) == body # <<>> /\ body[1].k = "doc"

\* cst.IndentedBlock(body=body_statements): a new block, with the default
\* header (no comment)
IndentedBlock(node, body_statements) ==
    [node EXCEPT !.hdr = NoComment, !.body = body_statements]

\* a pop() without its index
pop_last(body_statements) == SubSeq(body_statements, 1, Len(body_statements) - 1)

\* the statement is left in place
pop_nothing(body_statements) == body_statements

\* body_statements.pop(0)
pop_first(body_statements) == Tail(body_statements)

\* the new statement is put after the others
append_last(statement, body_statements) == body_statements \o <<statement>>

\* [statement] + list(updated_node.body.body)
prepend(statement, body_statements) == <<statement>> \o body_statements

Result(node, action, mod, reps, raised, vc, gc) ==
    [node |-> node, action |-> action, mod |-> mod, reports |-> reps,
     raised |-> raised, val_called |-> vc, gen_called |-> gc]

ValidationReport(fqn, val) ==
    Repeat("-", RuleWidth) \o "\nValidation report for " \o fqn \o ": "
        \o (IF val.ok THEN "PASS" ELSE "FAILED") \o "\n" \o val.text

update_docstring(options, fqn, updated_node, action_taken, lws, val, gen) ==
    IF options.validate /\ val.raised
    THEN Result(updated_node, action_taken, FALSE, <<>>, val.text, TRUE, FALSE)
    ELSE
    LET validated == options.validate /\ val.ok
        do_update == IF validated THEN FALSE ELSE options.update
        strip_docstring == IF validated THEN FALSE ELSE options.strip
        reps == IF options.validate THEN <<ValidationReport(fqn, val)>> ELSE <<>>
        body_statements == updated_node.body
        literal == IsSimpleStringStatement(body_statements)
    IN  IF literal /\ strip_docstring
        THEN Result(IndentedBlock(updated_node, pop_first(body_statements)),
                    "stripped existing docstring", TRUE, reps, "",
                    options.validate, FALSE)
        ELSE IF literal /\ do_update
        THEN IF gen = None
             \* format_docstring(None): None.strip()
             THEN Result(updated_node, action_taken, FALSE, reps, "AttributeError",
                         options.validate, TRUE)
             ELSE Result(IndentedBlock(updated_node,
                             <<format_docstring(gen.v, lws)>> \o Tail(body_statements)),
                         "updated existing docstring", TRUE, reps, "",
                         options.validate, TRUE)
        ELSE Result(IndentedBlock(updated_node, body_statements),
                    action_taken, FALSE, reps, "", options.validate, FALSE)

create_docstring(options, updated_node, action_taken, lws, gen) ==
    IF options.create
    THEN IF gen # None
         THEN Result(IndentedBlock(updated_node,
                         prepend(format_docstring(gen.v, lws), updated_node.body)),
                     "created a new docstring", TRUE, <<>>, "", FALSE, TRUE)
         ELSE Result(updated_node, "failed to create new docstring, leaving as-is",
                     FALSE, <<>>, "", FALSE, TRUE)
    ELSE Result(updated_node, action_taken, FALSE, <<>>, "", FALSE, FALSE)

\* every element is removed
pop_all(list) == <<>>

\* list.pop()
pop(list) == SubSeq(list, 1, Len(list) - 1)

\* the nesting of classes is not looked at
function_depth_exceeded(function_level, class_level, depth) == function_level > depth

\* the nesting of functions is not looked at
class_depth_exceeded(function_level, class_level, depth) == class_level > depth

DepthExceeded(function_level, class_level, depth) ==
    function_level > depth \/ class_level > depth

SkippedDepth(function_level, class_level) ==
    "skipped due to high nesting level -- function_level: " \o ToString(function_level)
        \o ", class_level: " \o ToString(class_level)

Ignored(fqn, function_level, class_level, depth) ==
    "ignored: you specified " \o fqn \o " to be processed, but the depth setting is too low ("
        \o ToString(depth) \o "). Increase the depth with the \"--depth "
        \o ToString(Max(function_level, class_level)) \o "\" option."

SkippedInterest ==
    "Skipped because it is not in the decorated filename list of functions to document."

\* fully_qualified_function_name in self.qualified_function_names
Requested(qualified_function_names, fqn) ==
    qualified_function_names # None /\ fqn \in Range(qualified_function_names.v)

\* every function is of interest
do_process_all(qualified_function_names, fqn) == TRUE

do_process(qualified_function_names, fqn) ==
    IF qualified_function_names # None
    THEN fqn \in Range(qualified_function_names.v)
    ELSE TRUE

\* leave_FunctionDef up to the call of remove_leading_whitespace: the node
\* to return, the action taken and what was appended or raised on the way
process_function(options, qualified_function_names, function_level, class_level, fqn, lws, updated_node, val, gen) ==
    IF DepthExceeded(function_level, class_level, options.depth)
    THEN IF Requested(qualified_function_names, fqn)
         \* self.logging.warning: DocstringUpdater has no attribute logging
         THEN Result(updated_node,
                     Ignored(fqn, function_level, class_level, options.depth),
                     FALSE, <<>>, "AttributeError", FALSE, FALSE)
         ELSE Result(updated_node, SkippedDepth(function_level, class_level),
                     FALSE, <<>>, "", FALSE, FALSE)
    ELSE IF ~do_process(qualified_function_names, fqn)
    THEN Result(updated_node, SkippedInterest, FALSE, <<>>, "", FALSE, FALSE)
    ELSE IF get_docstring(updated_node) = None
    THEN create_docstring(options, updated_node, "did nothing", lws, gen)
    ELSE update_docstring(options, fqn, updated_node, "did nothing", lws, val, gen)

(***************************************************************************)
(* The state: the arguments and the file of luci.main, the transformer of  *)
(* the document_file call in progress and the position of its traversal.   *)
(***************************************************************************)
VARIABLES
    pc,         \* where main is: "main", "loop", "visit", "returned", "exit", "raised"
    options,    \* the parsed command line (get_arguments)
    decorated_filename, \* the filename given on the command line, split at ':'
    original,   \* the text of the file named on the command line at the start
    file,       \* the text of that file now
    saved,      \* times main has overwritten the file
    qualified_function_names,
    stack,      \* the scopes being visited, the module first: the node, the
                \* index of its next statement to visit, its updated statements
    class_level,
    function_level,
    fully_qualified_function_name,
    leading_whitespace,
    reports,
    modified,
    result,     \* what the last document_file call returned
    last,       \* history: the last leave_FunctionDef call
    persisted,  \* history: what main did with the last result
    language,   \* uniparse.transform: the language of the source code
    context,    \* uniparse.transform: the names of the open scopes
    traversal,  \* uniparse.transform: the calls of traverse in progress
    level,      \* PrintTransformer.level
    hooks,      \* history: the hooks of the transformer called so far
    attempts,   \* options.attempts
    called,     \* queries: the function called and its docstring argument
    generating, \* queries.generate_docstring: the attempt in progress
    validating, \* queries.validate_docstring: the attempt in progress
    traffic,    \* history: the calls of ollama.query and their results
    outcome     \* what the called function returned or raised

args == <<options, decorated_filename, original>>
transformer == <<class_level, function_level, fully_qualified_function_name,
                 leading_whitespace, reports, modified>>
engine == <<args, file, saved, qualified_function_names, stack,
            transformer, result, last, persisted>>
walker == <<language, context, traversal, level, hooks>>
queries == <<attempts, called, generating, validating, traffic, outcome>>
vars == <<pc, engine, walker, queries>>

Options ==
    [create : BOOLEAN, update : BOOLEAN, strip : BOOLEAN, validate : BOOLEAN,
     depth : 1..MaxDepth]

\* get_arguments without any flag
Defaults == [create |-> FALSE, update |-> FALSE, strip |-> FALSE, validate |-> FALSE,
             depth |-> 1]

Decorations == UNION { [1..n -> PathPool] : n \in 0..MaxPaths }

\* the files luci is run on and the function paths given with them
Inputs == (SourceFiles \X Decorations) \cup ({Example} \X {<<>>, <<"Foo.check">>})

NoResult == [code |-> <<>>, source |-> <<>>, reports |-> <<>>, modified |-> FALSE,
             again |-> FALSE]

\* nothing was done with a result yet
NotPersisted == [op |-> "none", modified |-> FALSE, modify |-> FALSE, preview |-> FALSE,
                 report |-> FALSE, prompted |-> FALSE, user_response |-> "",
                 written |-> FALSE]

NoLast == [op |-> "none", fqn |-> "", name |-> "", scopes |-> <<>>, function_level |-> 0, class_level |-> 0,
           before |-> Scope("function", "", NoComment, <<>>),
           after |-> Scope("function", "", NoComment, <<>>),
           action |-> "", raised |-> "", val_called |-> FALSE, gen_called |-> FALSE,
           val |-> CHOOSE v \in ValidateOutcomes : v.ok, gen |-> None,
           lws |-> 0, reports_before |-> <<>>, set_modified |-> FALSE]

Module(body) == [k |-> "module", name |-> "", hdr |-> NoComment, body |-> body]

\* the index of the first class or function among body[i..], or Len(body) + 1
NextScope(body, i) ==
    IF \E j \in i..Len(body) : IsScope(body[j])
    THEN CHOOSE j \in i..Len(body) :
            IsScope(body[j]) /\ \A h \in i..(j - 1) : ~IsScope(body[h])
    ELSE Len(body) + 1

\* statements that are no scope are visited without any effect
Skip(frame) ==
    LET j == NextScope(frame.node.body, frame.i)
    IN  [frame EXCEPT !.i = j, !.out = @ \o SubSeq(frame.node.body, frame.i, j - 1)]

Enter(node) == Skip([node |-> node, i |-> 1, out |-> <<>>])

Top == stack[Len(stack)]

\* the stack after the top scope was left and replaced by node
Return(node) ==
    LET parent == stack[Len(stack) - 1]
    IN  [SubSeq(stack, 1, Len(stack) - 1) EXCEPT
            ![Len(stack) - 1] = Skip([parent EXCEPT !.out = Append(@, node), !.i = @ + 1])]

\* luci is started on a file
luci ==
    /\ pc = "main"
    /\ options \in Options
    /\ \E input \in Inputs :
          /\ original = input[1]
          /\ decorated_filename = <<"file.py">> \o input[2]
    /\ file = original
    /\ saved = 0
    /\ qualified_function_names = None
    /\ stack = <<>>
    /\ class_level = 0
    /\ function_level = 0
    /\ fully_qualified_function_name = <<>>
    /\ leading_whitespace = <<>>
    /\ reports = <<>>
    /\ modified = FALSE
    /\ result = NoResult
    /\ last = NoLast
    /\ persisted = NotPersisted

\* only the three flags together are refused
conflicting_all(opts) == opts.strip /\ opts.create /\ opts.update

\* args.strip and (args.create or args.update)
conflicting(opts) == opts.strip /\ (opts.create \/ opts.update)

\* luci.main, before the loop
Main ==
    /\ pc = "main"
    /\ pc' = IF conflicting(options) THEN "exit" ELSE "loop"
    /\ UNCHANGED <<args, file, saved, qualified_function_names, stack,
                   transformer, result, last, persisted, walker, queries>>

\* luci.main, one turn of the loop up to DocstringService.document_file's
\* tree.visit(transformer)
DocumentFile ==
    /\ pc = "loop"
    /\ qualified_function_names' = function_paths(decorated_filename)
    /\ stack' = <<Enter(Module(parse_module(file)))>>
    /\ class_level' = 0
    /\ function_level' = 0
    /\ fully_qualified_function_name' = <<>>
    /\ leading_whitespace' = <<>>
    /\ reports' = <<>>
    /\ modified' = FALSE
    /\ result' = NoResult
    /\ last' = NoLast
    /\ persisted' = NotPersisted
    /\ pc' = "visit"
    /\ UNCHANGED <<args, file, saved, walker, queries>>

CanVisit(k) ==
    /\ pc = "visit"
    /\ Top.i <= Len(Top.node.body)
    /\ Top.node.body[Top.i].k = k

CanLeave(k) ==
    /\ pc = "visit"
    /\ Top.i > Len(Top.node.body)
    /\ Top.node.k = k

visit_ClassDef ==
    /\ CanVisit("class")
    /\ LET node == Top.node.body[Top.i]
       IN  /\ class_level' = class_level + 1
           /\ fully_qualified_function_name' =
                  Append(fully_qualified_function_name, node.name)
           /\ leading_whitespace' =
                  Append(leading_whitespace, add_leading_whitespace(node))
           /\ stack' = Append(stack, Enter(node))
    /\ UNCHANGED <<pc, args, file, saved, qualified_function_names,
                   function_level, reports, modified, result, last, persisted, walker, queries>>

leave_ClassDef ==
    /\ CanLeave("class")
    /\ class_level' = class_level - 1
    /\ fully_qualified_function_name' = pop(fully_qualified_function_name)
    /\ leading_whitespace' = pop(leading_whitespace)
    /\ stack' = Return([Top.node EXCEPT !.body = Top.out])
    /\ UNCHANGED <<pc, args, file, saved, qualified_function_names,
                   function_level, reports, modified, result, last, persisted, walker, queries>>

visit_FunctionDef ==
    /\ CanVisit("function")
    /\ LET node == Top.node.body[Top.i]
       IN  /\ function_level' = function_level + 1
           /\ fully_qualified_function_name' =
                  Append(fully_qualified_function_name, node.name)
           /\ leading_whitespace' =
                  Append(leading_whitespace, add_leading_whitespace(node))
           /\ stack' = Append(stack, Enter(node))
    /\ UNCHANGED <<pc, args, file, saved, qualified_function_names,
                   class_level, reports, modified, result, last, persisted, walker, queries>>

\* the report is put in front of the others
insert(list, report) == <<report>> \o list

\* self.reports.append(report)
append(list, report) == Append(list, report)

leave_FunctionDef ==
    /\ CanLeave("function")
    /\ \E val \in ValidateOutcomes, gen \in GenerateOutcomes :
        LET updated_node == [Top.node EXCEPT !.body = Top.out]
            fqn == get_fully_qualified_function_name(fully_qualified_function_name)
            lws == get_leading_whitespace(leading_whitespace)
            r == process_function(options, qualified_function_names, function_level,
                                  class_level, fqn, lws, updated_node, val, gen)
        IN  /\ last' = [op |-> "leave_FunctionDef", fqn |-> fqn,
                        name |-> updated_node.name,
                        scopes |-> [i \in 1..(Len(stack) - 1) |-> stack[i + 1].node.name],
                        function_level |-> function_level, class_level |-> class_level,
                        before |-> updated_node, after |-> r.node,
                        action |-> r.action, raised |-> r.raised,
                        val_called |-> r.val_called, gen_called |-> r.gen_called,
                        val |-> IF r.val_called THEN val ELSE NoLast.val,
                        gen |-> IF r.gen_called THEN gen ELSE None,
                        lws |-> lws, reports_before |-> reports,
                        set_modified |-> r.mod]
            /\ IF r.raised # ""
               THEN /\ pc' = "raised"
                    /\ reports' = reports \o r.reports
                    /\ UNCHANGED <<stack, function_level, fully_qualified_function_name,
                                   leading_whitespace, modified>>
               ELSE /\ pc' = pc
                    /\ modified' = (modified \/ r.mod)
                    /\ leading_whitespace' = pop(leading_whitespace)
                    /\ function_level' = function_level - 1
                    /\ reports' = append(reports \o r.reports, fqn \o ": " \o r.action)
                    /\ fully_qualified_function_name' = pop(fully_qualified_function_name)
                    /\ stack' = Return(r.node)
    /\ UNCHANGED <<args, file, saved, qualified_function_names, class_level, result,
                   persisted, walker, queries>>

\* document_file returns modified_tree.code, transformer.reports, transformer.modified
Finish ==
    /\ CanLeave("module")
    /\ result' = [code |-> Code(Top.out), source |-> file, reports |-> reports,
                  modified |-> modified, again |-> saved > 0]
    /\ pc' = "returned"
    /\ UNCHANGED <<args, file, saved, qualified_function_names, stack,
                   transformer, last, persisted, walker, queries>>

\* the answers given to the prompt
Responses == {"y", " Y ", "yes"}

\* str.lower()
lower(s) ==
    LET upper == "ABCDEFGHIJKLMNOPQRSTUVWXYZ"
        letters == "abcdefghijklmnopqrstuvwxyz"
        c == [i \in 1..Len(s) |->
                IF \E n \in 1..26 : Char(upper, n) = Char(s, i)
                THEN Char(letters, CHOOSE n \in 1..26 : Char(upper, n) = Char(s, i))
                ELSE Char(s, i)]
    IN  Join(c, "")

\* the answer is compared as it was typed
typed_y(user_response) == user_response = "y"

\* input(...).strip().lower() == 'y'
answered_y(user_response) == lower(strip(user_response)) = "y"

\* luci.main after document_file: is the user asked, is the file written
persist(modified_, modify, preview, report, user_response) ==
    IF ~modified_ \/ ~modify
    THEN [prompted |-> FALSE, save_file |-> FALSE]
    ELSE IF preview \/ report
    THEN [prompted |-> TRUE, save_file |-> answered_y(user_response)]
    ELSE [prompted |-> FALSE, save_file |-> ~preview]

\* luci.main, the rest of the turn.  --modify, --preview and --report are
\* read here only and are drawn here; the turn that starts after the file
\* was written MaxFiles - 1 times is the last
Persist ==
    /\ pc = "returned"
    /\ \E modify \in BOOLEAN, preview \in BOOLEAN, report \in BOOLEAN,
          user_response \in Responses :
          LET p == persist(result.modified, modify, preview, report, user_response)
          IN  /\ persisted' = [op |-> "persist", modified |-> result.modified,
                               modify |-> modify, preview |-> preview, report |-> report,
                               prompted |-> p.prompted,
                               user_response |-> IF p.prompted THEN user_response ELSE "",
                               written |-> p.save_file]
              /\ IF p.save_file
                 THEN file' = result.code /\ saved' = saved + 1
                 ELSE UNCHANGED <<file, saved>>
    /\ pc' = IF saved >= MaxFiles - 1 THEN "done" ELSE "loop"
    /\ UNCHANGED <<args, qualified_function_names,
                   stack, transformer, result, last, walker, queries>>

(***************************************************************************)
(* The generic walker (src/uniparse.py): transform, with PrintTransformer   *)
(* as the transformer.                                                     *)
(***************************************************************************)
\* a node of a tree-sitter parse tree
Node(type, text, children) == [type |-> type, text |-> text, children |-> children]

Leaf(type) == Node(type, "", <<>>)

Identifier(type, text) == Node(type, text, <<>>)

\* a specification entry: the role and the steps of the name selector; a
\* step is the set of node types its comparator accepts
Entry(role, subtype) == [role |-> role, subtype |-> subtype]

python_specification ==
    [t \in {"class_definition", "function_definition"} |->
        IF t = "class_definition"
        THEN Entry("class", <<{"identifier"}>>)
        ELSE Entry("function", <<{"identifier"}>>)]

cpp_specification ==
    [t \in {"class_specifier", "function_definition"} |->
        IF t = "class_specifier"
        THEN Entry("class", <<{"type_identifier"}>>)
        ELSE Entry("function", <<{"function_declarator", "parenthesized_declarator"},
                                 {"field_identifier", "identifier"}>>)]

languages ==
    [l \in {"c", "cpp", "python"} |->
        IF l = "python" THEN python_specification ELSE cpp_specification]

RECURSIVE PythonTree(_, _)
\* the tree-sitter nodes of the statements body[i..] of a Python block
PythonTree(body, i) ==
    IF i > Len(body) THEN <<>>
    ELSE LET s == body[i]
             block == Node("block", "",
                           IF s.body = <<>> THEN <<Leaf("pass_statement")>>
                           ELSE PythonTree(s.body, 1))
             node == IF s.k = "class"
                     THEN Node("class_definition", "",
                               <<Leaf("class"), Identifier("identifier", s.name),
                                 Leaf(":"), block>>)
                     ELSE IF s.k = "function"
                     THEN Node("function_definition", "",
                               <<Leaf("def"), Identifier("identifier", s.name),
                                 Leaf("parameters"), Leaf(":"), block>>)
                     ELSE IF s.k \in {"doc", "cat"}
                     THEN Node("expression_statement", "", <<Leaf("string")>>)
                     ELSE Leaf("return_statement")
         IN <<node>> \o PythonTree(body, i + 1)

\* parser.parse of a Python source text
parse(code) == Node("module", "", PythonTree(ParseLines(code), 1))

CppFunction(declarator) ==
    Node("function_definition", "",
         <<Leaf("primitive_type"), declarator, Leaf("compound_statement")>>)

CppClass(name, members) ==
    Node("class_specifier", "",
         <<Leaf("class")>> \o name \o <<Node("field_declaration_list", "", members)>>)

FunctionDeclarator(type, text) ==
    Node("function_declarator", "", <<Identifier(type, text), Leaf("parameter_list")>>)

\* the parse trees of the C++ source texts the walker is given:
\*   class Foo { void bar() {} };
\*   int *baz() {}                      (the declarator is a pointer_declarator)
\*   class Foo { class { } ; };         (a class without a name)
\*   class Foo { void (*g)() f() {} };  (the first declarator holds no name)
\*   void (bar)() {}                    (the name is in a parenthesized_declarator)
CppTrees ==
    { Node("translation_unit", "",
           <<CppClass(<<Identifier("type_identifier", "Foo")>>,
                      <<CppFunction(FunctionDeclarator("field_identifier", "bar"))>>)>>),
      Node("translation_unit", "",
           <<CppFunction(Node("pointer_declarator", "",
                              <<Leaf("*"), FunctionDeclarator("identifier", "baz")>>))>>),
      Node("translation_unit", "",
           <<CppClass(<<Identifier("type_identifier", "Foo")>>,
                      <<CppClass(<<>>, <<>>)>>)>>),
      Node("translation_unit", "",
           <<CppClass(<<Identifier("type_identifier", "Foo")>>,
                      <<Node("function_definition", "",
                             <<Node("parenthesized_declarator", "",
                                    <<Node("pointer_declarator", "",
                                           <<Identifier("identifier", "g")>>)>>),
                               FunctionDeclarator("identifier", "f"),
                               Leaf("compound_statement")>>)>>)>>),
      Node("translation_unit", "",
           <<CppFunction(Node("function_declarator", "",
                              <<Node("parenthesized_declarator", "",
                                     <<Identifier("identifier", "bar")>>),
                                Leaf("parameter_list")>>))>>) }

\* what transform is called on: the language and the root node of the parse
WalkerInputs ==
    { [language |-> "python", root |-> parse(c)] : c \in SourceFiles }
    \cup { [language |-> l, root |-> t] : l \in {"c", "cpp"}, t \in CppTrees }

\* the last of the children that satisfy the comparator
last_child(node, comparator) ==
    IF \E j \in 1..Len(node.children) : node.children[j].type \in comparator
    THEN Some(node.children[
             CHOOSE j \in 1..Len(node.children) :
                /\ node.children[j].type \in comparator
                /\ \A h \in (j + 1)..Len(node.children) :
                      node.children[h].type \notin comparator])
    ELSE None

\* next((child for child in node.children if comparator(child.type)), None)
first_child(node, comparator) ==
    IF \E j \in 1..Len(node.children) : node.children[j].type \in comparator
    THEN Some(node.children[
             CHOOSE j \in 1..Len(node.children) :
                /\ node.children[j].type \in comparator
                /\ \A h \in 1..(j - 1) : node.children[h].type \notin comparator])
    ELSE None

RECURSIVE get_element(_, _)
get_element(node, sequence) ==
    LET next_node == first_child(node, sequence[1])
    IN  IF Len(sequence) = 1 THEN next_node
        ELSE IF next_node # None THEN get_element(next_node.v, Tail(sequence))
        ELSE None

\* the children of the node a call of traverse is at, and the place of the
\* node in the tree
Call(node, path, role, extended_context) ==
    [node |-> node, i |-> 1, path |-> path, role |-> role,
     extended_context |-> extended_context]

Current == traversal[Len(traversal)]

Hook(hook, path, ctx) == [hook |-> hook, node |-> path, context |-> ctx]

\* the hooks of PrintTransformer for classes and functions print context[-1]
hook_raises(role, ctx) == role \in {"class", "function"} /\ ctx = <<>>

\* transform up to its call of traverse(root_node)
transform ==
    /\ pc = "transform"
    /\ pc' = "traverse"
    /\ UNCHANGED <<engine, walker, queries>>

\* traverse(node), up to its loop over the children
traverse ==
    /\ pc = "traverse"
    /\ Current.i <= Len(Current.node.children)
    /\ LET node == Current.node.children[Current.i]
           specification == languages[language]
           node_type == IF node.type \in DOMAIN specification
                        THEN Some(specification[node.type]) ELSE None
           role == IF node_type # None THEN node_type.v.role ELSE "other"
           name_node == IF node_type # None
                        THEN get_element(node, node_type.v.subtype) ELSE None
           extended_context == name_node # None
           ctx == IF extended_context THEN Append(context, name_node.v.text)
                  ELSE context
           path == Append(Current.path, Current.i)
       IN  /\ context' = ctx
           /\ IF hook_raises(role, ctx)
              THEN /\ pc' = "IndexError"
                   /\ UNCHANGED <<traversal, level, hooks>>
              ELSE /\ pc' = pc
                   /\ level' = level + 1
                   /\ hooks' = Append(hooks, Hook("enter_" \o role, path, ctx))
                   /\ traversal' = Append(traversal,
                                          Call(node, path, role, extended_context))
    /\ UNCHANGED <<engine, language, queries>>

\* traverse(node) leaving the node at any time of its loop
traverse_leaving_early ==
    /\ pc = "traverse"
    /\ Len(traversal) > 1
    /\ IF hook_raises(Current.role, context)
       THEN /\ pc' = "IndexError"
            /\ level' = level - 1
            /\ UNCHANGED <<context, traversal, hooks>>
       ELSE /\ level' = level - 1
            /\ hooks' = Append(hooks, Hook("leave_" \o Current.role, Current.path, context))
            /\ context' = IF Current.extended_context THEN pop(context) ELSE context
            /\ traversal' = [SubSeq(traversal, 1, Len(traversal) - 1) EXCEPT
                                ![Len(traversal) - 1].i = @ + 1]
            /\ pc' = IF Len(traversal) = 2 THEN "walked" ELSE pc
    /\ UNCHANGED <<engine, language, queries>>

\* traverse(node), after its loop over the children
traverse_return ==
    /\ pc = "traverse"
    /\ Len(traversal) > 1
    /\ Current.i > Len(Current.node.children)
    /\ IF hook_raises(Current.role, context)
       THEN /\ pc' = "IndexError"
            /\ level' = level - 1
            /\ UNCHANGED <<context, traversal, hooks>>
       ELSE /\ level' = level - 1
            /\ hooks' = Append(hooks, Hook("leave_" \o Current.role, Current.path, context))
            /\ context' = IF Current.extended_context THEN pop(context) ELSE context
            /\ traversal' = [SubSeq(traversal, 1, Len(traversal) - 1) EXCEPT
                                ![Len(traversal) - 1].i = @ + 1]
            /\ pc' = IF Len(traversal) = 2 THEN "walked" ELSE pc
    /\ UNCHANGED <<engine, language, queries>>

\* uniparse.print_functions is started on a source text
print_functions ==
    /\ pc = "transform"
    /\ \E input \in WalkerInputs :
          /\ language = input.language
          /\ traversal = <<Call(Node("", "", <<input.root>>), <<>>, "", FALSE)>>
    /\ context = <<>>
    /\ level = 0
    /\ hooks = <<>>

(***************************************************************************)
(* The oracle layer (src/queries.py, src/ollama.py, src/formatting.py):     *)
(* generate_docstring and validate_docstring and the queries they send.     *)
(***************************************************************************)
\* what ollama.query returns: the text of the model, or {'error': str(e)}
\* after a request error
Str(text) == [k |-> "str", v |-> text]
Dict(error) == [k |-> "dict", v |-> error]

RequestError == Dict("connection refused")

\* the answers of the model to a validation query
ValidationResponses ==
    { Str("ANSWER: correct"),
      Str("The docstring matches.\nANSWER:\n Correct"),
      Str("ANSWER: incorrect: it lists nothing"),
      Str("ANSWER: correct\nANSWER: incorrect"),
      Str("It looks correct."),
      RequestError }

\* the answers of the model to a generation query
GenerationResponses ==
    { Str("Here it is: {\"summary\": \"Checks equality with 42.\"}"),
      Str("{\"summary\": \"Says '''hi'''.\"}"),
      Str("{\"summary\": \"Matches \\\\N{x}.\"}"),
      Str("{summary}"),
      Str("I cannot help."),
      RequestError }

\* the docstrings validate_docstring is called with
Docstrings ==
    { "\"\"\"old\"\"\"", "'''old'''", "old", "two words",
      "\"\"\"a\"\"\" \"\"\"b\"\"\"", "\"\"\"a\"\"\" 'b'" }

WordCharacters == "abcdefghijklmnopqrstuvwxyzABCDEFGHIJKLMNOPQRSTUVWXYZ0123456789_"

\* \w
IsWord(c) == \E i \in 1..Len(WordCharacters) : Char(WordCharacters, i) = c

\* the end of the longest run of characters from position i on that satisfy
\* test, i - 1 if there is none
RunEnd(s, i, test(_)) ==
    CHOOSE e \in (i - 1)..Len(s) :
        /\ \A m \in i..e : test(Char(s, m))
        /\ (e = Len(s) \/ ~test(Char(s, e + 1)))

IsSpace(c) == c \in Whitespace

RECURSIVE findall(_, _)
\* re.findall(r'ANSWER:\s*(\w+)', result), from position i on
findall(response, i) ==
    IF i + 6 > Len(response) THEN <<>>
    ELSE IF SubSeq(response, i, i + 6) = "ANSWER:"
    THEN LET w == RunEnd(response, i + 7, IsSpace) + 1
             e == RunEnd(response, w, IsWord)
         IN  IF e >= w
             THEN <<SubSeq(response, w, e)>> \o findall(response, e + 1)
             ELSE findall(response, i + 1)
    ELSE findall(response, i + 1)

\* no answer is counted as a correct answer
all_correct(response) ==
    LET answers == findall(response, 1)
    IN  \A i \in 1..Len(answers) : lower(answers[i]) = "correct"

\* valid = len(answers) > 0, and false when an answer is not 'correct'
valid(response) ==
    LET answers == findall(response, 1)
    IN  Len(answers) > 0 /\ \A i \in 1..Len(answers) : lower(answers[i]) = "correct"

\* exec(dummy_code, {}): the exception the docstring raises as the only
\* statement of a function that is compiled and called, "" if none
exec(docstring) ==
    IF docstring = "two words" \/ Contains(docstring, "\\N{x}") THEN "SyntaxError"
    ELSE IF docstring = "old" THEN "NameError"
    ELSE ""

\* not docstring.startswith('"""') or not docstring.endswith('"""')
\* or '"""' in docstring[3:-3]
misquoted(docstring) ==
    \/ ~StartsWith(docstring, "\"\"\"")
    \/ ~EndsWith(docstring, "\"\"\"")
    \/ Contains(SubSeq(docstring, 4, Len(docstring) - 3), "\"\"\"")

Returned(value) == [k |-> "return", v |-> value, raised |-> ""]
Raised(exception) == [k |-> "raise", v |-> <<>>, raised |-> exception]
Loop == [k |-> "loop", v |-> <<>>, raised |-> ""]

\* validate_docstring up to its loop: (False, report) is returned, an
\* exception is raised, or the loop over the attempts is entered
validate_entry(docstring) ==
    IF docstring = None THEN Raised("AttributeError")
    ELSE IF exec(docstring.v) = "SyntaxError"
    THEN Returned(<<FALSE, Some("Docstring syntax not valid")>>)
    ELSE IF exec(docstring.v) # "" THEN Raised(exec(docstring.v))
    ELSE IF misquoted(docstring.v)
    THEN Returned(<<FALSE, Some("Failed simple string test (incorrect quoting): "
                                   \o docstring.v)>>)
    ELSE Loop

\* json.loads for the texts between braces of the model's answers
json_loads(text) ==
    IF text = "{\"summary\": \"Checks equality with 42.\"}"
    THEN Returned(Some([summary |-> "Checks equality with 42."]))
    ELSE IF text = "{\"summary\": \"Says '''hi'''.\"}"
    THEN Returned(Some([summary |-> "Says '''hi'''."]))
    ELSE IF text = "{\"summary\": \"Matches \\\\N{x}.\"}"
    THEN Returned(Some([summary |-> "Matches \\N{x}."]))
    ELSE Raised("JSONDecodeError")

\* formatting.extract_json: the text from the first '{' to the last '}'
\* given to json.loads, None without braces
extract_json(text) ==
    IF text.k # "str" THEN Raised("AttributeError")
    ELSE LET opens == { i \in 1..Len(text.v) : Char(text.v, i) = "{" }
             closes == { i \in 1..Len(text.v) : Char(text.v, i) = "}" }
         IN  IF opens = {} \/ closes = {} THEN Returned(None)
             ELSE LET start == CHOOSE i \in opens : \A j \in opens : i <= j
                      end == CHOOSE i \in closes : \A j \in closes : i >= j
                  IN  IF start > end THEN Returned(None)
                      ELSE json_loads(SubSeq(text.v, start, end))

\* formatting.generate_documentation for func_data that holds a summary only
generate_documentation(func_data) ==
    IF func_data = None THEN Raised("AttributeError")
    ELSE LET doc_string == wrap(func_data.v.summary, 0, WrapWidth) \o <<"">>
         IN  IF \E i \in 1..Len(doc_string) :
                    Contains(doc_string[i], "\"\"\"") \/ Contains(doc_string[i], "'''")
             THEN Returned(None)
             ELSE Returned(Some("\"\"\"" \o "\n" \o Join(doc_string, "\n")
                                    \o "\n" \o "\"\"\""))

\* generate_documentation(extract_json(docstring), format_spec_python)
formatted_from(docstring) ==
    LET func_data == extract_json(docstring)
    IN  IF func_data.k = "raise" THEN func_data ELSE generate_documentation(func_data.v)

RECURSIVE strip_chars(_, _)
\* str.strip(chars)
strip_chars(s, chars) ==
    IF Len(s) > 0 /\ Char(s, 1) \in chars THEN strip_chars(SubSeq(s, 2, Len(s)), chars)
    ELSE IF Len(s) > 0 /\ Char(s, Len(s)) \in chars
    THEN strip_chars(SubSeq(s, 1, Len(s) - 1), chars)
    ELSE s

\* the truth value of what validate_docstring returns: a tuple of two is true
truth(verdict) == Len(verdict) > 0

NotCalledYet == [function |-> "", docstring |-> ""]
NotGenerating == [i |-> 0, formatted |-> ""]
NotValidating == [caller |-> "", docstring |-> "", i |-> 0, report |-> None]
NoVerdict == <<>>
NoTraffic == [generation |-> 0, validation |-> 0, responses |-> <<>>, verdict |-> NoVerdict]
NoOutcome == [k |-> "none", v |-> <<>>, raised |-> ""]

\* luci and uniparse are running: queries is not called on its own
NotCalled ==
    /\ attempts = MaxAttempts
    /\ called = NotCalledYet
    /\ generating = NotGenerating
    /\ validating = NotValidating
    /\ traffic = NoTraffic
    /\ outcome = NoOutcome

\* the loop takes one more turn
one_more(i, n) == i >= n

\* for i in range(options.attempts): turn i was the last
exhausted(i, n) == i + 1 >= n

\* generate_docstring up to its loop
generate_docstring ==
    /\ pc = "call"
    /\ called.function = "generate_docstring"
    /\ pc' = "generate"
    /\ UNCHANGED <<engine, walker, queries>>

\* the attempt of generate_docstring has failed: the next one, or None
next_attempt ==
    /\ generating' = [generating EXCEPT !.i = @ + 1]
    /\ IF exhausted(generating.i, attempts)
       THEN pc' = "finished" /\ outcome' = Returned(None)
       ELSE pc' = "generate" /\ UNCHANGED outcome

\* if validate_docstring(...): return formatted.strip('"').strip("'")
validated(verdict, formatted) ==
    IF truth(verdict)
    THEN /\ pc' = "finished"
         /\ outcome' = Returned(Some(strip_chars(strip_chars(formatted, {"\""}), {"'"})))
         /\ generating' = [generating EXCEPT !.formatted = formatted]
    ELSE next_attempt

\* one turn of the loop of generate_docstring, up to the loop of the
\* validate_docstring it calls
generate_attempt ==
    /\ pc = "generate"
    /\ \E docstring \in GenerationResponses :
          LET formatted == formatted_from(docstring)
              entry == validate_entry(formatted.v)
          IN  IF formatted.k = "raise"
              THEN /\ next_attempt
                   /\ traffic' = [traffic EXCEPT !.generation = @ + 1]
                   /\ UNCHANGED validating
              ELSE IF entry.k = "raise"
              THEN /\ next_attempt
                   /\ traffic' = [traffic EXCEPT !.generation = @ + 1]
                   /\ UNCHANGED validating
              ELSE IF entry.k = "return"
              THEN /\ validated(entry.v, formatted.v.v)
                   /\ traffic' = [traffic EXCEPT !.generation = @ + 1, !.responses = <<>>,
                                                 !.verdict = entry.v]
                   /\ UNCHANGED validating
              ELSE /\ pc' = "validate"
                   /\ validating' = [caller |-> "generate_docstring",
                                     docstring |-> formatted.v.v, i |-> 0, report |-> None]
                   /\ generating' = [generating EXCEPT !.formatted = formatted.v.v]
                   /\ traffic' = [traffic EXCEPT !.generation = @ + 1, !.responses = <<>>,
                                                 !.verdict = NoVerdict]
                   /\ UNCHANGED outcome
    /\ UNCHANGED <<engine, walker, attempts, called>>

\* validate_docstring up to its loop, called on its own
validate_docstring ==
    /\ pc = "call"
    /\ called.function = "validate_docstring"
    /\ LET entry == validate_entry(Some(called.docstring))
       IN  IF entry.k = "loop"
           THEN /\ pc' = "validate"
                /\ validating' = [caller |-> "", docstring |-> called.docstring,
                                  i |-> 0, report |-> None]
                /\ UNCHANGED outcome
           ELSE /\ pc' = "finished"
                /\ outcome' = entry
                /\ UNCHANGED validating
    /\ UNCHANGED <<engine, walker, attempts, called, generating, traffic>>

\* validate_docstring returns verdict to its caller
validate_return(verdict) ==
    IF validating.caller = "generate_docstring"
    THEN validated(verdict, validating.docstring)
    ELSE /\ pc' = "finished"
         /\ outcome' = Returned(verdict)
         /\ UNCHANGED generating

\* one turn of the loop of validate_docstring
validate_attempt ==
    /\ pc = "validate"
    /\ \E response \in ValidationResponses :
          /\ IF response.k # "str"
             \* re.findall(pattern, result) with a dict
             THEN /\ traffic' = [traffic EXCEPT !.validation = @ + 1,
                                                !.responses = Append(@, response)]
                  /\ UNCHANGED validating
                  /\ IF validating.caller = "generate_docstring"
                     THEN next_attempt
                     ELSE /\ pc' = "finished"
                          /\ outcome' = Raised("TypeError")
                          /\ UNCHANGED generating
             ELSE IF valid(response.v)
             THEN /\ traffic' = [traffic EXCEPT !.validation = @ + 1,
                                                !.responses = Append(@, response),
                                                !.verdict = <<TRUE, Some(response.v)>>]
                  /\ UNCHANGED validating
                  /\ validate_return(<<TRUE, Some(response.v)>>)
             ELSE IF exhausted(validating.i, attempts)
             THEN /\ traffic' = [traffic EXCEPT !.validation = @ + 1,
                                                !.responses = Append(@, response),
                                                !.verdict = <<FALSE, Some(response.v)>>]
                  /\ validating' = [validating EXCEPT !.i = @ + 1, !.report = Some(response.v)]
                  /\ validate_return(<<FALSE, Some(response.v)>>)
             ELSE /\ traffic' = [traffic EXCEPT !.validation = @ + 1,
                                                !.responses = Append(@, response)]
                  /\ validating' = [validating EXCEPT !.i = @ + 1, !.report = Some(response.v)]
                  /\ UNCHANGED <<pc, generating, outcome>>
    /\ UNCHANGED <<engine, walker, attempts, called>>

\* generate_docstring or validate_docstring is called with options.attempts
Queries ==
    /\ pc = "call"
    /\ attempts \in 1..MaxAttempts
    /\ called \in ([function : {"generate_docstring"}, docstring : {""}]
                      \cup [function : {"validate_docstring"}, docstring : Docstrings])
    /\ generating = NotGenerating
    /\ validating = NotValidating
    /\ traffic = NoTraffic
    /\ outcome = NoOutcome
    /\ options = Defaults
    /\ decorated_filename = <<"file.py">>
    /\ original = <<>>
    /\ file = <<>>
    /\ saved = 0
    /\ qualified_function_names = None
    /\ stack = <<>>
    /\ class_level = 0
    /\ function_level = 0
    /\ fully_qualified_function_name = <<>>
    /\ leading_whitespace = <<>>
    /\ reports = <<>>
    /\ modified = FALSE
    /\ result = NoResult
    /\ last = NoLast
    /\ persisted = NotPersisted
    /\ language = "python"
    /\ context = <<>>
    /\ traversal = <<>>
    /\ level = 0
    /\ hooks = <<>>

Asked ==
    \/ generate_docstring
    \/ generate_attempt
    \/ validate_docstring
    \/ validate_attempt

QuerySpec == Queries /\ [][Asked]_vars

Init ==
    \/ /\ luci
       /\ language = "python"
       /\ context = <<>>
       /\ traversal = <<>>
       /\ level = 0
       /\ hooks = <<>>
       /\ NotCalled
    \/ /\ print_functions
       /\ options = Defaults
       /\ decorated_filename = <<"file.py">>
       /\ original = <<>>
       /\ file = <<>>
       /\ saved = 0
       /\ qualified_function_names = None
       /\ stack = <<>>
       /\ class_level = 0
       /\ function_level = 0
       /\ fully_qualified_function_name = <<>>
       /\ leading_whitespace = <<>>
       /\ reports = <<>>
       /\ modified = FALSE
       /\ result = NoResult
       /\ last = NoLast
       /\ persisted = NotPersisted
       /\ NotCalled

Next ==
    \/ Main
    \/ DocumentFile
    \/ visit_ClassDef
    \/ leave_ClassDef
    \/ visit_FunctionDef
    \/ leave_FunctionDef
    \/ Finish
    \/ Persist
    \/ transform
    \/ traverse
    \/ traverse_return

Spec == Init /\ [][Next]_vars

(***************************************************************************)
(* Properties.                                                             *)
(***************************************************************************)
NoOp == ~options.create /\ ~options.update /\ ~options.strip /\ ~options.validate

Left == last.op = "leave_FunctionDef"

\* the last function left passed the depth gate and the interest gate
PassedGates ==
    /\ Left
    /\ ~(last.function_level > options.depth \/ last.class_level > options.depth)
    /\ (qualified_function_names = None
            \/ last.fqn \in Range(qualified_function_names.v))

HadDocstring == last.before.body # <<>> /\ last.before.body[1].k \in {"doc", "cat"}

\* the lines appended to the report list by the last leave_FunctionDef

Exceeded == last.function_level > options.depth \/ last.class_level > options.depth

\* the entry "<FQN>: <action>" of the last function left is in the report
\* list, right after what that call appended before it
Recorded(before) ==
    /\ Len(reports) >= Len(last.reports_before) + before + 1
    /\ reports[Len(last.reports_before) + before + 1] = last.fqn \o ": " \o last.action

Unchanged == last.after = last.before

IsGateSkip(report) ==
    \/ Contains(report, ": skipped due to high nesting level")
    \/ Contains(report, ": " \o SkippedInterest)

\* some function body of the text has a string statement right after its docstring
HasSecondString(lines) ==
    \E i \in 1..(Len(lines) - 1) :
        lines[i].k = "doc" /\ lines[i + 1].k = "doc" /\ lines[i].ind = lines[i + 1].ind

\* C1: with create, update, strip and validate all false, document_file
\* returns the text it read, byte for byte, and modified = false
C1_RoundTrip ==
    (pc = "returned" /\ NoOp) => (result.code = result.source /\ ~result.modified)

\* C2: a function nested deeper than options.depth is recorded with an
\* action that starts with "skipped" and is returned unchanged, whatever the
\* flags and the function paths
C2_DepthGate ==
    (Left /\ Exceeded) =>
        /\ last.raised = ""
        /\ StartsWith(last.action, "skipped")
        /\ Unchanged
        /\ Recorded(0)

C4_Create ==
    (PassedGates /\ ~HadDocstring /\ options.create /\ last.gen # None) =>
        /\ Len(last.after.body) = Len(last.before.body) + 1
        /\ last.after.body[1].k = "doc"
        /\ last.after.body[1].text = last.gen.v
        /\ last.after.body[1].fmt >= 0
        /\ Tail(last.after.body) = last.before.body
        /\ last.set_modified /\ modified
        /\ last.action = "created a new docstring"
        /\ Recorded(0)
        /\ reports[Len(last.reports_before) + 1] = last.fqn \o ": created a new docstring"

C4_Witness ==
    /\ PassedGates /\ ~HadDocstring /\ options.create /\ last.gen # None
    /\ last.fqn = "bar" /\ StartsWith(strip(last.gen.v), "Checks equality with 42.")
    /\ Len(last.after.body) = 2

\* C5: when generate returns none, on the create branch and on the update
\* branch, nothing is raised, the function is unchanged and a "failed" action
\* is recorded for it
C5_Exhaustion ==
    (Left /\ last.gen_called /\ last.gen = None) =>
        /\ last.raised = ""
        /\ Unchanged
        /\ StartsWith(last.action, "failed")
        /\ Recorded(IF last.val_called THEN 1 ELSE 0)

\* C6: for a function with a docstring that passed the gates: if validate
\* is set and validation passed the function is unchanged and generate is
\* not called; else the docstring is stripped iff strip is set, else
\* regenerated iff update is set, else the action is "did nothing"
C6_EffectiveFlags ==
    (PassedGates /\ HadDocstring) =>
        IF options.validate /\ last.val_called /\ ~last.val.raised /\ last.val.ok
        THEN /\ Unchanged
             /\ ~last.gen_called
             /\ last.action = "did nothing"
        ELSE IF options.strip
        THEN /\ last.action = "stripped existing docstring"
             /\ last.after.body = Tail(last.before.body)
        ELSE IF options.update
        THEN /\ last.action = "updated existing docstring"
             /\ last.gen_called
        ELSE last.action = "did nothing"

\* C7: when validate is set, a function with a docstring that passed the
\* gates gets exactly one validation line, with its FQN, PASS or FAILED and
\* the assessment, before its action entry; no other function gets one and
\* validate is not called for it
C7_ValidationReport ==
    Left =>
        IF PassedGates /\ HadDocstring /\ options.validate
        THEN /\ last.val_called
             /\ Len(reports) > Len(last.reports_before)
             /\ LET line == reports[Len(last.reports_before) + 1]
                IN  /\ Contains(line, "Validation report for " \o last.fqn \o ":")
                    /\ Contains(line, IF last.val.ok THEN "PASS" ELSE "FAILED")
                    /\ Contains(line, last.val.text)
             /\ last.raised = "" => Recorded(1)
        ELSE /\ ~last.val_called
             /\ last.raised = "" => Recorded(0)

EffectiveStrip ==
    /\ PassedGates /\ HadDocstring /\ options.strip
    /\ last.raised = ""
    /\ ~(options.validate /\ last.val.ok)

C10_FQN ==
    Left =>
        /\ last.fqn = Join(last.scopes, ".")
        /\ last.scopes[Len(last.scopes)] = last.name
        /\ last.scopes = <<"Foo", "bar", "baz">> => last.fqn = "Foo.bar.baz"
        /\ last.raised = "" => Recorded(IF last.val_called THEN 1 ELSE 0)

C10_Witness ==
    /\ Left /\ last.scopes = <<"Foo", "bar", "baz">>
    /\ reports = <<"Foo.bar.baz: did nothing">>

\* the scopes open in the traversal of document_file, outermost first
OpenScopes == [i \in 1..(Len(stack) - 1) |-> stack[i + 1].node]

Count(seq, k) == Cardinality({ i \in 1..Len(seq) : seq[i].k = k })

\* the calls of traverse in progress that extended the context
Extended == { i \in 1..Len(traversal) : traversal[i].extended_context }

\* C11: the name stack, the whitespace stack and the two nesting counters
\* always agree with the scopes that are open: one name and one whitespace
\* per open scope, in order, and as many classes and functions as the
\* counters say, so leaving a scope restores what was there before it was
\* entered and all are empty at the end of the traversal; the context of
\* uniparse.transform holds one name per open call that extended it, the
\* leave hook of a node gets the context its enter hook got, and the context
\* is empty at the end
C11_Balanced ==
    /\ Len(fully_qualified_function_name) = class_level + function_level
    /\ Len(leading_whitespace) = class_level + function_level
    /\ pc \in {"visit", "raised"} =>
          /\ fully_qualified_function_name = [i \in 1..Len(OpenScopes) |-> OpenScopes[i].name]
          /\ Len(leading_whitespace) = Len(OpenScopes)
          /\ class_level = Count(OpenScopes, "class")
          /\ function_level = Count(OpenScopes, "function")
    /\ pc = "returned" =>
          /\ fully_qualified_function_name = <<>> /\ leading_whitespace = <<>>
          /\ class_level = 0 /\ function_level = 0
    /\ Len(context) = Cardinality(Extended)
    /\ \A j \in 1..Len(hooks) :
          StartsWith(hooks[j].hook, "leave_") =>
              \E h \in 1..(j - 1) :
                  /\ StartsWith(hooks[h].hook, "enter_")
                  /\ hooks[h].node = hooks[j].node
                  /\ hooks[h].context = hooks[j].context
    /\ pc = "walked" => context = <<>>

\* a function nested in a scope was left and the scope is open again
C11_Witness ==
    /\ pc = "visit" /\ Left /\ last.raised = ""
    /\ Len(last.scopes) = 2
    /\ fully_qualified_function_name = <<last.scopes[1]>>
    /\ class_level + function_level = 1

\* C12: a function beyond the depth limit that is named in the function
\* paths gets a warning only: nothing is raised, the recorded action is a
\* skip, its entry is appended and the traversal goes on
C12_DepthWarning ==
    (Left /\ Exceeded /\ qualified_function_names # None
          /\ last.fqn \in Range(qualified_function_names.v)) =>
        /\ last.raised = "" /\ pc # "raised"
        /\ StartsWith(last.action, "skipped")
        /\ Recorded(0)

\* luci is run on class Foo of example.py as file.py:Foo.check
PathFilter == original = Example /\ decorated_filename = <<"file.py", "Foo.check">>

\* the functions of the scenario other than Foo.check are left alone
OnlyCheck ==
    (Left /\ last.fqn # "Foo.check") =>
        /\ Unchanged /\ ~last.set_modified
        /\ ~last.gen_called /\ ~last.val_called

\* C13: in the path-filter scenario with depth 1 only Foo.check is mutated
\* and the action of Foo.Bar.__init__ is the "not requested" skip
C13_PathFilter ==
    (PathFilter /\ options.depth = 1) =>
        /\ OnlyCheck
        /\ (Left /\ last.fqn = "Foo.Bar.__init__") => last.action = SkippedInterest

\* C13 as amended: only Foo.check is mutated; the action of Foo.Bar.__init__
\* is the nesting-depth skip with depth 1 (class_level 2) and the "not
\* requested" skip with a depth of at least 2; that of Foo.__init__ is the
\* "not requested" skip
C13_PathFilterAmended ==
    PathFilter =>
        /\ OnlyCheck
        /\ (Left /\ last.fqn = "Foo.__init__") => last.action = SkippedInterest
        /\ (Left /\ last.fqn = "Foo.Bar.__init__") =>
              last.action = IF options.depth = 1
                            THEN "skipped due to high nesting level -- function_level: 1, class_level: 2"
                            ELSE SkippedInterest
        /\ (Left /\ last.fqn = "Foo.check" /\ HadDocstring
                 /\ options.strip /\ ~options.validate) =>
              last.action = "stripped existing docstring"

C13_Witness ==
    /\ PathFilter /\ options.depth = 1 /\ Left /\ modified
    /\ last.fqn = "Foo.Bar.__init__"
    /\ StartsWith(last.action, "skipped due to high nesting level")
    /\ Len(reports) = 3

\* the last function left got a docstring from format_docstring
Formatted ==
    /\ Left /\ last.raised = "" /\ last.gen # None
    /\ last.action \in {"created a new docstring", "updated existing docstring"}
    /\ last.after.body[1] = format_docstring(last.gen.v, last.lws)

\* C14: every line of the text format_docstring produces is at most
\* len(indent) + 80 long and begins with the indent
C14_FormattingBound ==
    Formatted =>
        LET text == docstring_text(last.gen.v, last.lws)
        IN  \A i \in 1..Len(text) :
               /\ Len(text[i]) <= last.lws + 80
               /\ StartsWith(text[i], Repeat(" ", last.lws))

\* C14 as amended: every line is at most len(indent) + 80 long, and every
\* line but the opening quotes and the empty lines that stand for the blank
\* lines of the oracle text begins with the indent
C14_FormattingBoundAmended ==
    Formatted =>
        LET text == docstring_text(last.gen.v, last.lws)
        IN  \A i \in 1..Len(text) :
               /\ Len(text[i]) <= last.lws + 80
               /\ (i > 1 /\ text[i] # "") => StartsWith(text[i], Repeat(" ", last.lws))

\* a docstring of two paragraphs was formatted: a blank line, a line filled
\* to the full width by the head of a broken word
C14_Witness ==
    /\ Formatted /\ last.gen.v = Paragraphs
    /\ LET text == docstring_text(last.gen.v, last.lws)
       IN  /\ Len(text) = 7
           /\ text[3] = ""
           /\ Len(text[5]) = last.lws + 80

\* C15: the indent given to format_docstring for a function within the
\* depth limit is the whitespace before the statements of its body: one
\* indentation step per open scope
C15_IndentAlignment ==
    (Left /\ ~Exceeded) => last.lws = IndentUnit * Len(last.scopes)

\* C16: with strip and create or update together main exits before any file
\* is parsed, any oracle call is made or any file is written, so that
\* document_file never runs with strip and (create or update)
C16_MutualExclusion ==
    /\ (options.strip /\ (options.create \/ options.update)) =>
          /\ pc \in {"main", "exit"}
          /\ stack = <<>> /\ reports = <<>> /\ result = NoResult
          /\ ~Left /\ ~last.gen_called /\ ~last.val_called
          /\ file = original /\ saved = 0 /\ persisted = NotPersisted
    /\ pc \in {"loop", "visit", "raised", "returned", "done"} =>
          ~(options.strip /\ (options.create \/ options.update))

C16_Witness == pc = "exit" /\ options.strip /\ options.update /\ ~options.create

\* C17: main writes the file only if document_file returned modified = true
\* and --modify is set; with --preview or --report the user is asked first
\* and the file is written only if the answer is y (trimmed, any case);
\* with --modify alone the file is written without a question; the file
\* written is the text document_file returned
C17_PersistenceGuard ==
    persisted.op = "persist" =>
        /\ persisted.prompted <=>
              (persisted.modified /\ persisted.modify
                  /\ (persisted.preview \/ persisted.report))
        /\ persisted.written <=>
              /\ persisted.modified /\ persisted.modify
              /\ (persisted.preview \/ persisted.report) =>
                     persisted.user_response \in {"y", " Y "}
        /\ IF persisted.written THEN file = result.code ELSE file = result.source

C17_Witness ==
    /\ persisted.op = "persist" /\ persisted.prompted /\ persisted.written
    /\ persisted.user_response = " Y " /\ persisted.report /\ ~persisted.preview
    /\ file # result.source

\* the entry reports an action that creates, updates or strips a docstring
Mutating(report) ==
    \/ EndsWith(report, ": created a new docstring")
    \/ EndsWith(report, ": updated existing docstring")
    \/ EndsWith(report, ": stripped existing docstring")

\* C18: modified is true iff some action of the current run created,
\* updated or stripped a docstring, and when it is false at the end of the
\* run the returned text is the input text
C18_ModifiedFlag ==
    /\ pc \in {"visit", "returned"} =>
          (modified <=> \E i \in 1..Len(reports) : Mutating(reports[i]))
    /\ pc = "returned" =>
          /\ result.modified = modified
          /\ ~result.modified => result.code = result.source

\* the last line of the block that starts at line i of the text
End(lines, i) ==
    CHOOSE j \in i..Len(lines) :
        /\ \A m \in (i + 1)..j : lines[m].ind > lines[i].ind
        /\ (j = Len(lines) \/ lines[j + 1].ind <= lines[i].ind)

\* the class and def lines whose block holds line i
Enclosing(lines, i) ==
    { j \in 1..(i - 1) : lines[j].k \in ScopeKinds /\ End(lines, j) >= i }

Sorted(S) ==
    [r \in 1..Cardinality(S) |-> CHOOSE x \in S : Cardinality({ y \in S : y < x }) = r - 1]

\* the names of the scopes around line i and its own name, joined with dots
Dotted(lines, i) ==
    LET path == Sorted(Enclosing(lines, i) \cup {i})
    IN  Join([r \in 1..Len(path) |-> lines[path[r]].text], ".")

Defs(lines) == { i \in 1..Len(lines) : lines[i].k = "function" }

\* the def lines of the text in the order in which their blocks end, an
\* inner block before the block around it
LeaveOrder(lines) ==
    LET before(i, j) == \/ End(lines, i) < End(lines, j)
                        \/ End(lines, i) = End(lines, j) /\ i > j
    IN  [r \in 1..Cardinality(Defs(lines)) |->
            CHOOSE i \in Defs(lines) :
                Cardinality({ j \in Defs(lines) : before(j, i) }) = r - 1]

\* the "<FQN>: <action>" entries, without the validation reports
Entries(list) == SelectSeq(list, LAMBDA report : ~StartsWith(report, "-"))

\* C19: the entries "<FQN>: <action>" of reports are, in order, the function
\* definitions of the file in the order in which they are left: one entry
\* for each when document_file returns, none for a class; entries are only
\* appended, and each call of document_file starts with an empty list
C19_ReportOrder ==
    /\ pc \in {"visit", "raised", "returned"} =>
          LET entries == Entries(reports)
              order == LeaveOrder(file)
          IN  /\ Len(entries) <= Len(order)
              /\ \A r \in 1..Len(entries) :
                     StartsWith(entries[r], Dotted(file, order[r]) \o ": ")
              /\ pc = "returned" =>
                     Len(entries) = Len(order) /\ result.reports = reports
    /\ (Left /\ pc \in {"visit", "raised", "returned"}) =>
          /\ Len(reports) >= Len(last.reports_before)
          /\ SubSeq(reports, 1, Len(last.reports_before)) = last.reports_before

C19_Witness ==
    /\ pc = "returned" /\ result.again
    /\ Len(Entries(reports)) >= 3
    /\ Len(reports) > Len(Entries(reports))
    /\ \E i \in 1..Len(file) : file[i].k = "class"
    /\ \E i \in Defs(file) : Enclosing(file, i) # {} /\ End(file, i) < Len(file)

\* the FQN of the entry "<FQN>: <action>"
EntryFqn(report) ==
    LET n == CHOOSE n \in 0..Len(report) :
                 /\ SubSeq(report, n + 1, n + 2) = ": "
                 /\ \A m \in 0..(n - 1) : SubSeq(report, m + 1, m + 2) # ": "
    IN  SubSeq(report, 1, n)

\* the names of the scopes around line i and its own name
NamePath(lines, i) ==
    LET path == Sorted(Enclosing(lines, i) \cup {i})
    IN  [r \in 1..Len(path) |-> lines[path[r]].text]

\* C20 as stated: no two function definitions of a file are given the same
\* FQN, and a path of interest selects at most one function
C20_Uniqueness ==
    pc = "returned" =>
        LET entries == Entries(reports)
        IN  /\ \A r1, r2 \in 1..Len(entries) :
                   r1 # r2 => EntryFqn(entries[r1]) # EntryFqn(entries[r2])
            /\ qualified_function_names # None =>
                   \A p \in Range(qualified_function_names.v) :
                       Cardinality({ r \in 1..Len(entries) :
                                        EntryFqn(entries[r]) = p }) <= 1

\* C20 amended: two function definitions of a file are given the same FQN
\* exactly when their own names and the names of the scopes around them are
\* the same, in the same order; a path of interest selects every definition
\* with that path of names, which is at most one function when no two
\* definitions of the file have the same path of names
C20_UniquenessAmended ==
    pc = "returned" =>
        LET entries == Entries(reports)
            order == LeaveOrder(file)
        IN  /\ Len(entries) = Len(order)
            /\ \A r1, r2 \in 1..Len(entries) :
                   EntryFqn(entries[r1]) = EntryFqn(entries[r2])
                       <=> NamePath(file, order[r1]) = NamePath(file, order[r2])
            /\ qualified_function_names # None =>
                   \A p \in Range(qualified_function_names.v) :
                       { r \in 1..Len(entries) : EntryFqn(entries[r]) = p }
                           = { r \in 1..Len(order) : NamePath(file, order[r]) = split(p, ".") }

C20_Witness ==
    /\ pc = "returned" /\ qualified_function_names # None
    /\ \E i, j \in Defs(file) :
           /\ i # j /\ file[i].text = file[j].text
           /\ NamePath(file, i) # NamePath(file, j)
    /\ \E r \in 1..Len(Entries(reports)) :
           EntryFqn(Entries(reports)[r]) \in Range(qualified_function_names.v)

\* a bound on the steps the call has left: every step makes it smaller
Remaining ==
    IF pc = "call"
    THEN (IF called.function = "validate_docstring" THEN attempts + 1
          ELSE 1 + attempts * (attempts + 1))
    ELSE IF pc = "generate" THEN (attempts - generating.i) * (attempts + 1)
    ELSE IF pc = "validate"
    THEN (IF validating.caller = "generate_docstring"
          THEN (attempts - generating.i - 1) * (attempts + 1) ELSE 0)
         + (attempts - validating.i)
    ELSE 0

\* every step of the call brings its end nearer, and a call that has not
\* ended can take a step
Terminates ==
    /\ pc' # pc \/ queries' # queries
    /\ Remaining' < Remaining
    /\ Remaining' >= 0
    /\ Remaining' = 0 <=> pc' = "finished"

\* the queries sent so far
Total == traffic.generation + traffic.validation

\* C21 as stated: one generate_docstring call sends at most options.attempts
\* queries in all, those of its validations included, one validate_docstring
\* call sends at most options.attempts queries, and both end
C21_BoundedQueries == [](Total <= attempts) /\ [][Terminates]_vars

\* the queries of the validation in progress or last finished
Validations == Len(traffic.responses)

\* the counts of the queries sent so far are within their bounds
Bounded ==
    /\ traffic.generation <= attempts
    /\ Validations <= attempts
    /\ called.function = "generate_docstring" =>
          traffic.validation <= attempts * traffic.generation
    /\ called.function = "validate_docstring" =>
          traffic.generation = 0 /\ traffic.validation = Validations
    /\ traffic.generation + traffic.validation <= attempts * (1 + attempts)
    /\ (called.function = "generate_docstring" /\ pc = "finished") =>
          /\ outcome.k = "return"
          /\ outcome.v = None <=> generating.i = attempts
          /\ outcome.v = None => traffic.generation = attempts

\* C21 amended: one generate_docstring call sends at most options.attempts
\* generation queries and, for each candidate, at most options.attempts
\* validation queries, so at most attempts * (1 + attempts) queries in all;
\* one validate_docstring call sends at most options.attempts queries; both
\* end, and generate_docstring returns None exactly when options.attempts
\* attempts have failed
C21_BoundedQueriesAmended == []Bounded /\ [][Terminates]_vars

C21_Witness ==
    /\ pc = "finished" /\ called.function = "generate_docstring"
    /\ attempts = MaxAttempts
    /\ traffic.generation + traffic.validation = attempts * (1 + attempts)
    /\ outcome.v = None

\* C22: generate_docstring returns a candidate only if validate_docstring
\* judged that candidate valid
C22_AcceptedOnlyWhenValid ==
    (called.function = "generate_docstring" /\ pc = "finished" /\ outcome.v # None) =>
        (traffic.verdict # NoVerdict /\ traffic.verdict[1])

\* the docstrings of the model that do not start with three double quotes,
\* do not end with them or hold them inside
Malformed ==
    { "'''old'''", "old", "two words", "\"\"\"a\"\"\" \"\"\"b\"\"\"", "\"\"\"a\"\"\" 'b'" }

\* C23: validate_docstring, given a docstring that does not start with the
\* delimiter, does not end with it or holds it inside, returns a false
\* verdict without sending any query
C23_FastFail ==
    (called.function = "validate_docstring" /\ called.docstring \in Malformed
        /\ pc # "call") =>
        /\ pc = "finished"
        /\ traffic.validation = 0
        /\ outcome.k = "return"
        /\ ~outcome.v[1]

\* the answers of the model that hold an ANSWER and only correct ones
Qualifying ==
    { Str("ANSWER: correct"), Str("The docstring matches.\nANSWER:\n Correct") }

\* C24: for a well-quoted docstring validate_docstring returns (True,
\* response) at the first attempt whose response holds at least one
\* "ANSWER: <word>" and only the word correct, in any case, and sends no
\* query after it; if none of the options.attempts responses is such it
\* returns (False, last response)
C24_Verdict ==
    (called.function = "validate_docstring" /\ called.docstring = "\"\"\"old\"\"\"") =>
        LET responses == traffic.responses
            n == Len(responses)
        IN  /\ n <= attempts
            /\ \A i \in 1..(n - 1) : responses[i] \notin Qualifying
            /\ pc = "validate" => n < attempts /\ \A i \in 1..n : responses[i] \notin Qualifying
            /\ (pc = "finished" /\ outcome.k = "return") =>
                  /\ n >= 1
                  /\ outcome.v[1] <=> responses[n] \in Qualifying
                  /\ outcome.v[2] = Some(responses[n].v)
                  /\ ~outcome.v[1] => n = attempts
            /\ (pc = "finished" /\ outcome.k = "raise") => responses[n] = RequestError

C24_Witness ==
    /\ called.function = "validate_docstring" /\ pc = "finished"
    /\ Len(traffic.responses) = 2 /\ attempts = 3
    /\ traffic.responses[1] = Str("ANSWER: correct\nANSWER: incorrect")
    /\ outcome = Returned(<<TRUE, Some("The docstring matches.\nANSWER:\n Correct")>>)

\* C25: when a query fails with a request error while validate_docstring
\* validates an existing docstring, no exception leaves validate_docstring:
\* it ends with a false verdict or with a later successful attempt
C25_TransportFailure ==
    (called.function = "validate_docstring" /\ pc = "finished"
        /\ \E i \in 1..Len(traffic.responses) : traffic.responses[i] = RequestError) =>
        outcome.k = "return"

\* the calls of traverse in progress on a node whose kind the specification
\* maps to a class or a function
Scoped == { f \in 2..Len(traversal) : traversal[f].role \in {"class", "function"} }

\* C26: a node whose kind is mapped to class or function but whose name
\* selector resolves to nothing is handled as "other": it gets the
\* enter_other and leave_other hooks, never enter_class or enter_function,
\* the context is not extended, its children are visited and no exception is
\* raised
C26_UnresolvedIsOther ==
    /\ pc # "IndexError"
    /\ \A f \in Scoped : traversal[f].extended_context

\* the node reached from a node by taking, in turn, the children of the
\* given indexes
RECURSIVE Descend(_, _)
Descend(node, indexes) ==
    IF indexes = <<>> THEN node
    ELSE Descend(node.children[indexes[1]], Tail(indexes))

\* the ways to go n levels down from a node
RECURSIVE Walks(_, _)
Walks(node, n) ==
    IF n = 0 THEN {<<>>}
    ELSE UNION { { <<j>> \o w : w \in Walks(node.children[j], n - 1) } :
                 j \in 1..Len(node.children) }

\* every node on the way satisfies its step of the selector
Matches(node, indexes, sequence) ==
    \A i \in 1..Len(indexes) :
        Descend(node, SubSeq(indexes, 1, i)).type \in sequence[i]

\* every node on the way is the first of its siblings to satisfy its step
Foremost(node, indexes, sequence) ==
    \A i \in 1..Len(indexes) :
        \A h \in 1..(indexes[i] - 1) :
            Descend(node, SubSeq(indexes, 1, i - 1)).children[h].type \notin sequence[i]

\* the selectors of the language specifications, and one of three steps
Selectors ==
    { python_specification[t].subtype : t \in DOMAIN python_specification }
    \cup { cpp_specification[t].subtype : t \in DOMAIN cpp_specification }
    \cup { <<{"parenthesized_declarator"}, {"pointer_declarator"}, {"identifier"}>> }

\* C27: for every node the walker comes to and every selector of n >= 1
\* steps, get_element returns the node n levels down that is reached by
\* taking at each step the first child whose kind satisfies the step; it
\* returns None exactly when that way ends at a step no child satisfies,
\* even if a later sibling would have led to a match
C27_SelectorResolution ==
    pc = "traverse" =>
        \A sequence \in Selectors :
            LET node == Current.node
                ways == { w \in Walks(node, Len(sequence)) :
                            Matches(node, w, sequence) /\ Foremost(node, w, sequence) }
            IN  /\ Cardinality(ways) <= 1
                /\ get_element(node, sequence) = None <=> ways = {}
                /\ \A w \in ways :
                      get_element(node, sequence) = Some(Descend(node, w))

\* the walker is at a C++ function whose first declarator holds no name and
\* whose second declarator does: the selector resolves to nothing
C27_Witness ==
    /\ pc = "traverse" /\ language = "cpp"
    /\ Current.node.type = "function_definition"
    /\ LET sequence == cpp_specification["function_definition"].subtype
       IN  /\ get_element(Current.node, sequence) = None
           /\ \E w \in Walks(Current.node, 2) : Matches(Current.node, w, sequence)

\* the places of the nodes of a tree, the root's being <<>>
RECURSIVE Places(_)
Places(node) ==
    {<<>>} \cup UNION { { <<j>> \o w : w \in Places(node.children[j]) } :
                        j \in 1..Len(node.children) }

\* the node transform was called on is the only child of the first entry
ParseTree == traversal[1].node

\* the calls of the enter hooks and of the leave hooks made for the node
\* at a place, by their position among all hook calls
Entered(place) ==
    { j \in 1..Len(hooks) : hooks[j].node = place /\ StartsWith(hooks[j].hook, "enter_") }

Departed(place) ==
    { j \in 1..Len(hooks) : hooks[j].node = place /\ StartsWith(hooks[j].hook, "leave_") }

\* "class", "function" or "other"
RoleOf(hook) == SubSeq(hook, Len("enter_") + 1, Len(hook))

Below(place, inner) ==
    Len(inner) > Len(place) /\ SubSeq(inner, 1, Len(place)) = place

\* the two places are of children of one node, the first one's coming first
Earlier(place, other) ==
    /\ Len(place) = Len(other) /\ place # <<>>
    /\ SubSeq(place, 1, Len(place) - 1) = SubSeq(other, 1, Len(other) - 1)
    /\ place[Len(place)] < other[Len(other)]

\* the name of the scope at a place, when its kind is mapped and its name
\* selector resolves
ScopeName(place) ==
    LET node == Descend(ParseTree, place)
        specification == languages[language]
    IN  IF node.type \in DOMAIN specification
        THEN get_element(node, specification[node.type].subtype)
        ELSE None

\* C28: transform calls, for every node of the parse tree, one enter hook
\* before every hook of its descendants and one leave hook of the same role
\* after all of them; the children of a node are gone through in document
\* order, each left before the next is entered; and the leave hook of a scope
\* gets the context its enter hook got, which ends with the name of the scope
\* when the name resolved.  While transform runs, and when a hook of the
\* transformer raises, the calls made so far are the beginning of that order
C28_WalkerOrdering ==
    pc \in {"traverse", "walked", "IndexError"} =>
        LET nodes == Places(ParseTree) \ {<<>>}
        IN  /\ \A j \in 1..Len(hooks) : hooks[j].node \in nodes
            /\ \A place \in nodes :
                  /\ Cardinality(Entered(place)) <= 1
                  /\ Cardinality(Departed(place)) <= 1
                  /\ pc = "walked" => Entered(place) # {} /\ Departed(place) # {}
                  /\ \A l \in Departed(place) : \E e \in Entered(place) :
                        /\ e < l
                        /\ RoleOf(hooks[e].hook) = RoleOf(hooks[l].hook)
                        /\ hooks[e].context = hooks[l].context
                  /\ \A e \in Entered(place) :
                        ScopeName(place) # None =>
                            /\ hooks[e].context # <<>>
                            /\ hooks[e].context[Len(hooks[e].context)] = ScopeName(place).v.text
                  /\ \A inner \in nodes : Below(place, inner) =>
                        /\ \A x \in Entered(inner) \cup Departed(inner) :
                              /\ \E e \in Entered(place) : e < x
                              /\ \A l \in Departed(place) : x < l
                        /\ Departed(place) # {} => Entered(inner) # {} /\ Departed(inner) # {}
                  /\ \A other \in nodes : Earlier(place, other) =>
                        \A e \in Entered(other) : \E l \in Departed(place) : l < e

\* transform has returned from a tree with a scope inside a scope followed
\* by another node
C28_Witness ==
    /\ pc = "walked"
    /\ \E place, inner, other \in Places(ParseTree) :
          /\ Below(place, inner) /\ Earlier(place, other)
          /\ ScopeName(place) # None /\ ScopeName(inner) # None
          /\ Entered(inner) # {} /\ Departed(other) # {}

\* the docstring the last function left had was a single string literal
HadLiteralDocstring == last.before.body # <<>> /\ last.before.body[1].k = "doc"

\* C29: leave_FunctionDef calls generate_docstring only for a function that
\* passed both gates and either had no docstring while create is set, or had
\* a string-literal docstring while update is set and validation, if any,
\* did not pass; it calls validate_docstring only for a function that passed
\* both gates and had a docstring while validate is set; it calls neither for
\* a function skipped by a gate, nor for any function when create, update,
\* strip and validate are all unset
C29_NoOracleTraffic ==
    Left =>
        /\ last.gen_called =>
              /\ PassedGates
              /\ \/ ~HadDocstring /\ options.create
                 \/ /\ HadLiteralDocstring /\ options.update
                    /\ ~(options.validate /\ last.val.ok)
        /\ last.val_called => PassedGates /\ HadDocstring /\ options.validate
        /\ ~PassedGates => ~last.gen_called /\ ~last.val_called
        /\ NoOp => ~last.gen_called /\ ~last.val_called

\* a function that passed the gates had its docstring validated, without
\* success, and then generated anew
C29_Witness ==
    /\ PassedGates /\ HadLiteralDocstring
    /\ last.val_called /\ ~last.val.ok /\ last.gen_called
    /\ qualified_function_names # None

\* max(function_level, class_level) of the n-th of the open scopes
NestingLevel(n) ==
    LET around == SubSeq(OpenScopes, 1, n)
    IN  Max(Count(around, "function"), Count(around, "class"))

\* the open scope is a function around the one about to be left, and it is
\* beyond the depth limit
SkippedAround(n) ==
    /\ n < Len(OpenScopes)
    /\ OpenScopes[n].k = "function"
    /\ NestingLevel(n) > options.depth

\* leave_FunctionDef is called for a function inside a function that is
\* beyond the depth limit: it is beyond the limit too and the oracle is not
\* called for it
NestedSkipped ==
    (CanLeave("function") /\ \E n \in 1..Len(OpenScopes) : SkippedAround(n)) =>
        /\ Max(function_level, class_level) > options.depth
        /\ last'.op = "leave_FunctionDef"
        /\ ~last'.gen_called /\ ~last'.val_called
        /\ last'.raised = "" => last'.action = SkippedDepth(function_level, class_level)

\* leave_FunctionDef skips a function for its depth: what it returns is the
\* function as it was parsed, nested definitions included
SubtreeUnchanged ==
    (CanLeave("function") /\ Max(function_level, class_level) > options.depth
        /\ last'.raised = "") =>
        /\ last'.action = SkippedDepth(function_level, class_level)
        /\ last'.after = Top.node
        /\ modified' = modified

\* C30: the nesting level max(function_level, class_level) of a function
\* inside a function F is at least that of F, so when F is skipped by the
\* depth gate every function nested in F is skipped by the depth gate as
\* well and the whole of F, nested definitions included, is returned as it
\* was parsed
C30_DepthSubtree ==
    /\ [](pc = "visit" =>
            \A n \in 1..Len(OpenScopes) :
                NestingLevel(n) <= Max(function_level, class_level))
    /\ [][NestedSkipped /\ SubtreeUnchanged]_vars

\* a function beyond the depth limit that holds a function without a
\* docstring was left while create was set
C30_Witness ==
    /\ Left /\ last.raised = "" /\ options.create
    /\ Max(last.function_level, last.class_level) > options.depth
    /\ \E i \in 1..Len(last.after.body) :
          /\ last.after.body[i].k = "function"
          /\ get_docstring(last.after.body[i]) = None
====
